---- MODULE Spec2Model ----
(***************************************************************************)
(* Model of lsac_tracker.py: the pipeline get_statuses -> get_status ->    *)
(* reverse_date_sort -> print_all, with the browser (landing page buttons  *)
(* and portal pages) as the environment.  Python strings are sequences of  *)
(* one-character strings, so that title(), replace(), split(), rstrip(),   *)
(* center() and strptime() are computed the way Python computes them.      *)
(***************************************************************************)
EXTENDS Integers, Sequences, FiniteSets, TLC

VARIABLES buttons, pages, pc, idx, school_data, fetched, sorted_data,
          printed, error, reruns

vars == <<buttons, pages, pc, idx, school_data, fetched, sorted_data,
          printed, error, reruns>>

\* ------------------------------------------------------------------ bounds
MaxButtons == 2
MaxWords == 3
MaxReruns == 1

\* ------------------------------------------------- Python string built-ins
UpperChars == <<"A", "B", "C", "D", "E", "F", "G", "H", "I", "J", "K", "L", "M", "N", "O", "P", "Q", "R", "S", "T", "U", "V", "W", "X", "Y", "Z">>
LowerChars == <<"a", "b", "c", "d", "e", "f", "g", "h", "i", "j", "k", "l", "m", "n", "o", "p", "q", "r", "s", "t", "u", "v", "w", "x", "y", "z">>
DigitChars == <<"0", "1", "2", "3", "4", "5", "6", "7", "8", "9">>

Range(s) == {s[i] : i \in 1..Len(s)}

IndexIn(alphabet, c) == CHOOSE i \in 1..Len(alphabet) : alphabet[i] = c

IsCased(c) == c \in Range(UpperChars) \cup Range(LowerChars)

ToUpper(c) == IF c \in Range(LowerChars) THEN UpperChars[IndexIn(LowerChars, c)] ELSE c

ToLower(c) == IF c \in Range(UpperChars) THEN LowerChars[IndexIn(UpperChars, c)] ELSE c

IsSpace(c) == c \in {" ", "\n", "\t"}

\* pat occurs in s at position i
Matches(s, pat, i) ==
    /\ i >= 1
    /\ i + Len(pat) - 1 <= Len(s)
    /\ SubSeq(s, i, i + Len(pat) - 1) = pat

\* `pat in s`
Contains(s, pat) == \E i \in 1..Len(s) : Matches(s, pat, i)

\* s.find(pat) + 1 (0 when absent)
Find(s, pat) ==
    IF Contains(s, pat)
    THEN CHOOSE i \in 1..Len(s) :
            Matches(s, pat, i) /\ \A j \in 1..(i - 1) : ~Matches(s, pat, j)
    ELSE 0

\* s.split(sep, 1)
Split1(s, sep) ==
    LET i == Find(s, sep)
    IN  IF i = 0 THEN <<s>>
        ELSE <<SubSeq(s, 1, i - 1), SubSeq(s, i + Len(sep), Len(s))>>

\* s.rstrip()
RStrip(s) ==
    LET keep == {i \in 1..Len(s) : ~IsSpace(s[i])}
        n == IF keep = {} THEN 0 ELSE CHOOSE i \in keep : \A j \in keep : j <= i
    IN  SubSeq(s, 1, n)

\* s.replace(old, new): every non-overlapping occurrence, left to right
RECURSIVE Replace(_, _, _)
Replace(s, old, new) ==
    IF s = <<>> THEN <<>>
    ELSE IF Matches(s, old, 1)
         THEN new \o Replace(SubSeq(s, Len(old) + 1, Len(s)), old, new)
         ELSE <<Head(s)>> \o Replace(Tail(s), old, new)

\* the text as displayed, str.title() left out
TitleIdentity(s) == s

\* s.title(): a cased character is uppercased when the previous character is
\* not cased and lowercased when it is
Title(s) ==
    [i \in 1..Len(s) |->
        IF IsCased(s[i])
        THEN IF i > 1 /\ IsCased(s[i - 1]) THEN ToLower(s[i]) ELSE ToUpper(s[i])
        ELSE s[i]]

Repeat(c, n) == [i \in 1..n |-> c]

Width == 75

\* s.center(width)
Center(s, width) ==
    IF Len(s) >= width THEN s
    ELSE LET marg == width - Len(s)
             left == (marg \div 2) + (IF marg % 2 = 1 /\ width % 2 = 1 THEN 1 ELSE 0)
         IN  Repeat(" ", left) \o s \o Repeat(" ", marg - left)

\* ------------------------------------------- datetime.strptime '%m/%d/%Y'
NoDate == <<0, 0, 0>>

IsDigits(s) == \A i \in 1..Len(s) : s[i] \in Range(DigitChars)

DigitVal(c) == IndexIn(DigitChars, c) - 1

RECURSIVE NumVal(_)
NumVal(s) == IF s = <<>> THEN 0 ELSE 10 * NumVal(SubSeq(s, 1, Len(s) - 1)) + DigitVal(s[Len(s)])

IsLeap(y) == (y % 4 = 0 /\ y % 100 # 0) \/ y % 400 = 0

DaysInMonth(y, m) ==
    IF m = 2 THEN (IF IsLeap(y) THEN 29 ELSE 28)
    ELSE IF m \in {4, 6, 9, 11} THEN 30 ELSE 31

\* %m is 1[0-2]|0[1-9]|[1-9]
MonthField(s) == Len(s) \in {1, 2} /\ IsDigits(s) /\ NumVal(s) \in 1..12

\* %d is 3[0-1]|[1-2]\d|0[1-9]|[1-9]| [1-9]
DayField(s) ==
    \/ Len(s) \in {1, 2} /\ IsDigits(s) /\ NumVal(s) \in 1..31
    \/ Len(s) = 2 /\ s[1] = " " /\ IsDigits(Tail(s)) /\ NumVal(Tail(s)) \in 1..9

DayVal(s) == IF s[1] = " " THEN NumVal(Tail(s)) ELSE NumVal(s)

\* %Y is \d\d\d\d
YearField(s) == Len(s) = 4 /\ IsDigits(s)

\* the date <<year, month, day>> that strptime returns, NoDate where it
\* raises ValueError
strptime(s) ==
    LET a == Split1(s, <<"/">>)
    IN  IF Len(a) < 2 THEN NoDate
        ELSE LET b == Split1(a[2], <<"/">>)
             IN  IF Len(b) < 2 THEN NoDate
                 ELSE IF ~(MonthField(a[1]) /\ DayField(b[1]) /\ YearField(b[2]))
                      THEN NoDate
                 ELSE LET y == NumVal(b[2])
                          m == NumVal(a[1])
                          d == DayVal(b[1])
                      IN  IF y < 1 \/ d > DaysInMonth(y, m) THEN NoDate
                          ELSE <<y, m, d>>

\* datetime comparison, as one integer
Ordinal(date) == date[1] * 10000 + date[2] * 100 + date[3]

\* --------------------------------------------------------- literals
Sentinel == <<"0", "1", "/", "0", "1", "/", "0", "0", "0", "1">>
FallbackMsg == <<"A", "p", "p", " ", "s", "t", "a", "t", "u", "s", " ", "n", "o", "t", " ", "f", "o", "u", "n", "d", ".", "\n", "P", "l", "e", "a", "s", "e", " ", "m", "a", "n", "u", "a", "l", "l", "y", " ", "c", "h", "e", "c", "k", " ", "t", "r", "a", "c", "k", "e", "r", " ", "f", "o", "r", " ", "a", " ", "p", "o", "t", "e", "n", "t", "i", "a", "l", " ", "d", "e", "c", "i", "s", "i", "o", "n", "!", "\n">>
DateMarker == <<" ", "D", "a", "t", "e", ":", " ">>
CasLabel == <<"C", "A", "S", " ", "R", "e", "p", "o", "r", "t", " ", "S", "t", "a", "t", "u", "s", ":">>

\* ----------------------------------------------------------- of_lowercase
of_lowercase(s) ==
    LET s1 == IF Contains(s, <<"O", "f", " ", "T", "h", "e">>) THEN Replace(s, <<"O", "f", " ", "T", "h", "e">>, <<"o", "f", " ", "t", "h", "e">>) ELSE s
    IN  IF Contains(s1, <<"O", "f">>) THEN Replace(s1, <<"O", "f">>, <<"o", "f">>) ELSE s1

\* ------------------------------------------------------------- get_status
\* the except branch without data_arr[0] in the message
FallbackNoLink(data_arr) == data_arr \o <<FallbackMsg, Sentinel>>

\* data_arr after the except branch
Fallback(data_arr) == data_arr \o <<FallbackMsg \o data_arr[1], Sentinel>>

\* a wait that never raises
NeverTimesOut(page) == FALSE

\* wait.until raises TimeoutException
WaitTimesOut(page) == ~page.loads

\* full_text after the 'CAS Report Status:' section is dropped
DropCas(full_text) ==
    IF Contains(full_text, <<"C", "A", "S">>) THEN RStrip(Split1(full_text, CasLabel)[1])
    ELSE full_text

\* get_status assigning the three fields instead of extending data_arr
get_status_overwrite(data_arr, page) ==
    IF ~page.label THEN <<data_arr[1], FallbackMsg \o data_arr[1], Sentinel>>
    ELSE LET full_text == DropCas(page.text)
         IN  IF ~Contains(full_text, <<"D", "a", "t", "e">>)
             THEN <<data_arr[1], full_text, Sentinel>>
             ELSE LET split_arr == Split1(full_text, DateMarker)
                  IN  IF Len(split_arr) < 2
                      THEN <<data_arr[1], FallbackMsg \o data_arr[1], Sentinel>>
                      ELSE <<data_arr[1], split_arr[1],
                             IF split_arr[2] = <<>> THEN Sentinel ELSE split_arr[2]>>

\* data_arr after the try/except of get_status, for a page that has loaded
get_status(data_arr, page) ==
    IF ~page.label THEN Fallback(data_arr)
    ELSE LET full_text == DropCas(page.text)
         IN  IF ~Contains(full_text, <<"D", "a", "t", "e">>)
             THEN data_arr \o <<full_text, Sentinel>>
             ELSE LET split_arr == Split1(full_text, DateMarker)
                  IN  IF Len(split_arr) < 2
                      THEN Fallback(data_arr)
                      ELSE data_arr \o <<split_arr[1],
                             IF split_arr[2] = <<>> THEN Sentinel ELSE split_arr[2]>>

\* ------------------------------------------------------ reverse_date_sort
Reverse(s) == [i \in 1..Len(s) |-> s[Len(s) + 1 - i]]

\* a key that compares month, day, year in the order they are written
MonthFirstKey(x) ==
    LET date == strptime(x.v[3]) IN date[2] * 1000000 + date[3] * 10000 + date[1]

\* key=lambda x: datetime.strptime(x[1][2], '%m/%d/%Y')
SortKey(x) == Ordinal(strptime(x.v[3]))

\* insert x behind every element whose key is not greater
RECURSIVE InsertStable(_, _)
InsertStable(sorted, x) ==
    IF sorted = <<>> THEN <<x>>
    ELSE IF SortKey(Head(sorted)) <= SortKey(x)
         THEN <<Head(sorted)>> \o InsertStable(Tail(sorted), x)
         ELSE <<x>> \o sorted

RECURSIVE StableSortAsc(_)
StableSortAsc(items) ==
    IF items = <<>> THEN <<>>
    ELSE InsertStable(StableSortAsc(SubSeq(items, 1, Len(items) - 1)), items[Len(items)])

KeyRaises(items) == \E i \in 1..Len(items) : strptime(items[i].v[3]) = NoDate

\* an ascending stable sort read backwards: equal dates change places
reverse_date_sort_naive(data_dict) == Reverse(StableSortAsc(data_dict))

\* sorted(..., reverse=True): reverse, stable ascending sort, reverse
reverse_date_sort(data_dict) == Reverse(StableSortAsc(Reverse(data_dict)))

\* -------------------------------------------------------------- print_all
\* the status line without the test for the sentinel
StatusLineAlwaysDate(v) == v[2] \o DateMarker \o v[3]

\* the line print_all prints under the name
StatusLine(v) == IF v[3] # Sentinel THEN v[2] \o DateMarker \o v[3] ELSE v[2]

RECURSIVE EntryLines(_)
EntryLines(data_dict) ==
    IF data_dict = <<>> THEN <<>>
    ELSE << Repeat("=", Width), Center(Head(data_dict).k, Width), Repeat("_", Width),
            StatusLine(Head(data_dict).v) >> \o EntryLines(Tail(data_dict))

print_all(data_dict) == EntryLines(data_dict) \o <<Repeat("=", Width)>>

\* ------------------------------------------------------------ environment
NoText == <<>>

Block(t) == [loads |-> TRUE, label |-> TRUE, text |-> t]

PageNoLabel == [loads |-> TRUE, label |-> FALSE, text |-> NoText]

PageTimeout == [loads |-> FALSE, label |-> FALSE, text |-> NoText]

PageComplete == Block(<<"C", "o", "m", "p", "l", "e", "t", "e", " ", "D", "a", "t", "e", ":", " ", "0", "3", "/", "0", "1", "/", "2", "0", "2", "5">>)

PageCompleteCas == Block(<<"C", "o", "m", "p", "l", "e", "t", "e", " ", "D", "a", "t", "e", ":", " ", "0", "3", "/", "0", "1", "/", "2", "0", "2", "5", "\n", "C", "A", "S", " ", "R", "e", "p", "o", "r", "t", " ", "S", "t", "a", "t", "u", "s", ":", " ", "S", "e", "n", "t">>)

PageAdmitted == Block(<<"A", "d", "m", "i", "t", "t", "e", "d", " ", "D", "a", "t", "e", ":", " ", "1", "2", "/", "1", "5", "/", "2", "0", "2", "4">>)

PageReceived == Block(<<"R", "e", "c", "e", "i", "v", "e", "d">>)

PageBlankDate == Block(<<"R", "e", "c", "e", "i", "v", "e", "d", " ", "D", "a", "t", "e", ":", " ">>)

PageBlankDateTrimmed == Block(<<"R", "e", "c", "e", "i", "v", "e", "d", " ", "D", "a", "t", "e", ":">>)

PageBlankDateCas == Block(<<"R", "e", "c", "e", "i", "v", "e", "d", " ", "D", "a", "t", "e", ":", " ", "\n", "C", "A", "S", " ", "R", "e", "p", "o", "r", "t", " ", "S", "t", "a", "t", "u", "s", ":", " ", "S", "e", "n", "t">>)

PageBadDate == Block(<<"C", "o", "m", "p", "l", "e", "t", "e", " ", "D", "a", "t", "e", ":", " ", "3", "/", "1", "/", "2", "5">>)

Pages == {PageNoLabel, PageTimeout, PageComplete, PageCompleteCas, PageAdmitted,
          PageReceived, PageBlankDate, PageBlankDateTrimmed, PageBlankDateCas,
          PageBadDate}

Yale == <<"Y", "a", "l", "e", " ", "L", "a", "w", " ", "S", "c", "h", "o", "o", "l">>
YaleUpper == <<"Y", "A", "L", "E", " ", "L", "A", "W", " ", "S", "C", "H", "O", "O", "L">>
NyuShown == <<"N", "Y", "U", " ", "S", "c", "h", "o", "o", "l", " ", "O", "f", " ", "L", "a", "w">>

ButtonTexts == {Yale, YaleUpper, NyuShown}

NameWords == {<<"O", "f">>, <<"T", "h", "e">>, <<"O", "f", "f", "i", "c", "e">>, <<"B", "o", "a", "r", "d">>, <<"T", "h", "e", "o", "l", "o", "g", "y">>}

RECURSIVE Join(_)
Join(ws) == IF Len(ws) = 1 THEN ws[1] ELSE ws[1] \o <<" ">> \o Join(Tail(ws))

WordNames == {Join(ws) : ws \in UNION {[1..n -> NameWords] : n \in 1..MaxWords}}

\* href of the i-th 'View details' button
Href(i) == <<"h", "t", "t", "p", "s", ":", "/", "/", "a", "s", "o", "/">> \o <<DigitChars[i + 1]>>

ButtonList(texts) == [i \in 1..Len(texts) |-> [href |-> Href(i), text |-> texts[i]]]

\* the page the driver shows after driver.get(link)
PageAt(link) == pages[CHOOSE i \in 1..Len(buttons) : buttons[i].href = link]

\* ------------------------------------------------------------------ state
Start ==
    /\ pc = "build"
    /\ idx = 1
    /\ school_data = <<>>
    /\ fetched = <<>>
    /\ sorted_data = <<>>
    /\ printed = <<>>
    /\ error = "none"
    /\ reruns = 0

Init ==
    /\ \E n \in 1..MaxButtons :
          /\ buttons \in {ButtonList(t) : t \in [1..n -> ButtonTexts]}
          /\ pages \in [1..n -> Pages]
    /\ Start

InitNames ==
    /\ buttons \in {ButtonList(<<t>>) : t \in WordNames}
    /\ pages \in [1..1 -> Pages]
    /\ Start

\* school_data[k] = v
DictSet(d, k, v) ==
    IF \E i \in 1..Len(d) : d[i].k = k
    THEN [i \in 1..Len(d) |-> IF d[i].k = k THEN [k |-> k, v |-> v] ELSE d[i]]
    ELSE Append(d, [k |-> k, v |-> v])

\* one iteration of `for b in buttons`
BuildStep ==
    /\ pc = "build"
    /\ LET b == buttons[idx]
           l == b.href
           s == Title(b.text)
       IN  school_data' = DictSet(school_data, of_lowercase(s), <<l>>)
    /\ IF idx = Len(buttons)
       THEN pc' = "fetch" /\ idx' = 1
       ELSE pc' = "build" /\ idx' = idx + 1
    /\ UNCHANGED <<buttons, pages, fetched, sorted_data, printed, error, reruns>>

\* one iteration of `for k, v in school_data.items()`, get_status returning
GetStatusStep ==
    /\ pc = "fetch"
    /\ LET data_arr == school_data[idx].v
           page == PageAt(data_arr[1])
       IN  /\ ~WaitTimesOut(page)
           /\ school_data' = [school_data EXCEPT ![idx].v = get_status(data_arr, page)]
           /\ fetched' = Append(fetched, data_arr[1])
    /\ IF idx = Len(school_data)
       THEN pc' = "sort" /\ idx' = idx
       ELSE pc' = "fetch" /\ idx' = idx + 1
    /\ UNCHANGED <<buttons, pages, sorted_data, printed, error, reruns>>

\* the same iteration, wait.until raising: nothing catches the exception
GetStatusTimeout ==
    /\ pc = "fetch"
    /\ LET data_arr == school_data[idx].v
           page == PageAt(data_arr[1])
       IN  /\ WaitTimesOut(page)
           /\ fetched' = Append(fetched, data_arr[1])
    /\ pc' = "aborted"
    /\ error' = "TimeoutException"
    /\ UNCHANGED <<buttons, pages, idx, school_data, sorted_data, printed, reruns>>

\* sorted_data = reverse_date_sort(school_data)
SortStep ==
    /\ pc = "sort"
    /\ ~KeyRaises(school_data)
    /\ sorted_data' = reverse_date_sort(school_data)
    /\ pc' = "print"
    /\ UNCHANGED <<buttons, pages, idx, school_data, fetched, printed, error, reruns>>

\* strptime raising ValueError inside the sort key
SortRaises ==
    /\ pc = "sort"
    /\ KeyRaises(school_data)
    /\ pc' = "aborted"
    /\ error' = "ValueError"
    /\ UNCHANGED <<buttons, pages, idx, school_data, fetched, sorted_data, printed, reruns>>

\* print_all(sorted_info)
PrintStep ==
    /\ pc = "print"
    /\ printed' = print_all(sorted_data)
    /\ pc' = "done"
    /\ UNCHANGED <<buttons, pages, idx, school_data, fetched, sorted_data, error, reruns>>

\* get_status called once more on a record it has already filled
RerunStep ==
    /\ pc = "sort"
    /\ reruns < MaxReruns
    /\ \E i \in 1..Len(school_data) :
          LET data_arr == school_data[i].v
              page == PageAt(data_arr[1])
          IN  /\ ~WaitTimesOut(page)
              /\ school_data' = [school_data EXCEPT ![i].v = get_status(data_arr, page)]
              /\ fetched' = Append(fetched, data_arr[1])
    /\ reruns' = reruns + 1
    /\ UNCHANGED <<buttons, pages, pc, idx, sorted_data, printed, error>>

Next ==
    \/ BuildStep
    \/ GetStatusStep
    \/ GetStatusTimeout
    \/ SortStep
    \/ SortRaises
    \/ PrintStep

NextRerun ==
    \/ Next
    \/ RerunStep

Spec == Init /\ [][Next]_vars

SpecNames == InitNames /\ [][Next]_vars

SpecRerun == Init /\ [][NextRerun]_vars

\* ------------------------------------------------------------- properties
\* the name get_statuses files the button under
NameOf(b) == of_lowercase(Title(b.text))

\* position of the first button that carries the name k
FirstSeen(k) ==
    CHOOSE i \in 1..Len(buttons) :
        NameOf(buttons[i]) = k /\ \A j \in 1..(i - 1) : NameOf(buttons[j]) # k

\* get_status has returned on the i-th record
Filled(i) == Len(school_data[i].v) >= 3

Attempted(i) == school_data[i].v[1] \in Range(fetched)

CalendarDate(e) == strptime(e.v[3])

IsFallbackEntry(v) ==
    /\ Contains(v[2], <<"P", "l", "e", "a", "s", "e", " ", "m", "a", "n", "u", "a", "l", "l", "y", " ", "c", "h", "e", "c", "k", " ", "t", "r", "a", "c", "k", "e", "r">>)
    /\ Contains(v[2], v[1])
    /\ v[3] = <<"0", "1", "/", "0", "1", "/", "0", "0", "0", "1">>

\* a block with the label whose text raises inside the try block
ParseFails(page) ==
    /\ page.label
    /\ Contains(DropCas(page.text), <<"D", "a", "t", "e">>)
    /\ ~Contains(DropCas(page.text), <<" ", "D", "a", "t", "e", ":", " ">>)

\* C1: in what reverse_date_sort returns, adjacent entries are in descending
\* calendar order and no sentinel-dated entry precedes an entry with a real
\* date.
C1_SortedDescending ==
    pc \in {"print", "done"} =>
        /\ \A i \in 1..(Len(sorted_data) - 1) :
              Ordinal(CalendarDate(sorted_data[i])) >= Ordinal(CalendarDate(sorted_data[i + 1]))
        /\ \A i, j \in 1..Len(sorted_data) :
              (i < j /\ sorted_data[i].v[3] = <<"0", "1", "/", "0", "1", "/", "0", "0", "0", "1">>)
                 => CalendarDate(sorted_data[j]) = <<1, 1, 1>>

C1_Witness ==
    /\ pc = "done"
    /\ Len(school_data) = 2
    /\ school_data[1].v[3] = <<"0", "1", "/", "0", "1", "/", "0", "0", "0", "1">>
    /\ CalendarDate(school_data[2]) = <<2025, 3, 1>>
    /\ sorted_data[1] = school_data[2]

\* C2: a resource whose page has no status label, or whose block fails to
\* parse, gets the manual-check message with its link and the sentinel date,
\* and the run is not aborted at that resource.
C2_FallbackOnMissingLabel ==
    \A i \in 1..Len(school_data) :
        LET v == school_data[i].v
            page == PageAt(v[1])
        IN  (Attempted(i) /\ page.loads /\ (~page.label \/ ParseFails(page)))
               => /\ Filled(i)
                  /\ IsFallbackEntry(v)
                  /\ ~(error = "TimeoutException" /\ idx = i)

C2_Witness ==
    /\ pc = "done"
    /\ Len(school_data) = 2
    /\ ~PageAt(school_data[1].v[1]).label
    /\ IsFallbackEntry(school_data[1].v)
    /\ Filled(2)
    /\ Len(printed) = 9

\* C3 as stated: a page-load timeout inside get_status becomes the fallback
\* entry for that resource and the run is not aborted.
C3_TimeoutBecomesFallback ==
    \A i \in 1..Len(school_data) :
        LET v == school_data[i].v
        IN  (Attempted(i) /\ ~PageAt(v[1]).loads)
               => Filled(i) /\ IsFallbackEntry(v) /\ pc # "aborted"

\* C3 amended: a page-load timeout inside get_status is not caught; the run
\* aborts at that resource, the record gets no status or date, no later
\* resource is fetched and nothing is sorted or printed.
C3_TimeoutAbortsRun ==
    \A i \in 1..Len(school_data) :
        LET v == school_data[i].v
        IN  (Attempted(i) /\ ~PageAt(v[1]).loads)
               => /\ pc = "aborted"
                  /\ error = "TimeoutException"
                  /\ idx = i
                  /\ v = <<v[1]>>
                  /\ \A j \in (i + 1)..Len(school_data) : ~Attempted(j) /\ ~Filled(j)
                  /\ sorted_data = <<>>
                  /\ printed = <<>>

C3_Witness ==
    /\ pc = "aborted"
    /\ error = "TimeoutException"
    /\ Len(school_data) = 2
    /\ idx = 1
    /\ ~Attempted(2)

\* C4: print_all renders '<status> Date: <date>' for an entry with a real
\* date and '<status>' alone for an entry with the sentinel date.
C4_RenderedStatusLine ==
    pc = "done" =>
        /\ Len(printed) = 4 * Len(sorted_data) + 1
        /\ \A j \in 1..Len(sorted_data) :
              LET v == sorted_data[j].v
                  line == printed[4 * j]
              IN  /\ v[3] # <<"0", "1", "/", "0", "1", "/", "0", "0", "0", "1">> => line = v[2] \o <<" ", "D", "a", "t", "e", ":", " ">> \o v[3]
                  /\ v[3] = <<"0", "1", "/", "0", "1", "/", "0", "0", "0", "1">> => line = v[2]

C4_Witness ==
    /\ pc = "done"
    /\ Len(sorted_data) = 2
    /\ printed[4] = <<"C", "o", "m", "p", "l", "e", "t", "e", " ", "D", "a", "t", "e", ":", " ", "0", "3", "/", "0", "1", "/", "2", "0", "2", "5">>
    /\ ~PageAt(sorted_data[2].v[1]).label
    /\ printed[8] = sorted_data[2].v[2]

\* C5 as stated: a second get_status on the same record and an unchanged
\* page leaves the record as it was.
C5_RerunLeavesEntryIdentical ==
    [][reruns' = reruns + 1 => school_data' = school_data]_vars

\* C5 amended: a second get_status on the same record leaves the link, the
\* status text and the date where they were and appends a second copy of
\* the status text and the date, so the record grows by two fields.
C5_RerunAppendsCopy ==
    [][reruns' = reruns + 1 =>
          \E i \in 1..Len(school_data) :
              school_data' = [school_data EXCEPT ![i].v = @ \o <<@[2], @[3]>>]]_vars

C5_Witness ==
    /\ reruns = 1
    /\ pc = "done"
    /\ \E i \in 1..Len(school_data) :
          /\ Len(school_data[i].v) = 5
          /\ school_data[i].v[4] = <<"C", "o", "m", "p", "l", "e", "t", "e">>
          /\ school_data[i].v[5] = <<"0", "3", "/", "0", "1", "/", "2", "0", "2", "5">>

\* the word w stands in s at position p
WordAt(s, w, p) ==
    /\ Matches(s, w, p)
    /\ p = 1 \/ s[p - 1] = " "
    /\ p + Len(w) - 1 = Len(s) \/ s[p + Len(w)] = " "

MidTitleOf(s, p) == p > 1 /\ WordAt(s, <<"O", "f">>, p)

MidTitleOfThe(s, p) == p > 3 /\ MidTitleOf(s, p - 3) /\ WordAt(s, <<"T", "h", "e">>, p)

\* C6: of_lowercase lowercases the word 'Of', and 'The' after it, in the
\* middle of a title and changes no other character: not an 'Of' that opens
\* the name, not the letters 'Of' that begin a longer word.
C6_OnlyMidTitleWords ==
    pc # "build" =>
        \A e \in 1..Len(buttons) :
            LET s == Title(buttons[e].text)
                r == of_lowercase(s)
            IN  /\ \E i \in 1..Len(school_data) : school_data[i].k = r
                /\ Len(r) = Len(s)
                /\ \A p \in 1..Len(s) :
                      /\ MidTitleOf(s, p) => r[p] = "o"
                      /\ MidTitleOfThe(s, p) => r[p] = "t"
                      /\ ~(MidTitleOf(s, p) \/ MidTitleOfThe(s, p)) => r[p] = s[p]

\* the two resources of the end-to-end scenario, in either discovery order
Scenario ==
    /\ Len(buttons) = 2
    /\ \E y, n \in 1..2 :
          /\ buttons[y].text = <<"Y", "a", "l", "e", " ", "L", "a", "w", " ", "S", "c", "h", "o", "o", "l">>
          /\ pages[y] = Block(<<"C", "o", "m", "p", "l", "e", "t", "e", " ", "D", "a", "t", "e", ":", " ", "0", "3", "/", "0", "1", "/", "2", "0", "2", "5">>)
          /\ buttons[n].text = <<"N", "Y", "U", " ", "S", "c", "h", "o", "o", "l", " ", "O", "f", " ", "L", "a", "w">>
          /\ pages[n] = PageNoLabel

ScenarioOutput(second_name) ==
    LET n == CHOOSE i \in 1..2 : buttons[i].text = <<"N", "Y", "U", " ", "S", "c", "h", "o", "o", "l", " ", "O", "f", " ", "L", "a", "w">>
    IN  << Repeat("=", 75),
           Center(<<"Y", "a", "l", "e", " ", "L", "a", "w", " ", "S", "c", "h", "o", "o", "l">>, 75),
           Repeat("_", 75),
           <<"C", "o", "m", "p", "l", "e", "t", "e", " ", "D", "a", "t", "e", ":", " ", "0", "3", "/", "0", "1", "/", "2", "0", "2", "5">>,
           Repeat("=", 75),
           Center(second_name, 75),
           Repeat("_", 75),
           <<"A", "p", "p", " ", "s", "t", "a", "t", "u", "s", " ", "n", "o", "t", " ", "f", "o", "u", "n", "d", ".", "\n", "P", "l", "e", "a", "s", "e", " ", "m", "a", "n", "u", "a", "l", "l", "y", " ", "c", "h", "e", "c", "k", " ", "t", "r", "a", "c", "k", "e", "r", " ", "f", "o", "r", " ", "a", " ", "p", "o", "t", "e", "n", "t", "i", "a", "l", " ", "d", "e", "c", "i", "s", "i", "o", "n", "!", "\n">>
              \o buttons[n].href,
           Repeat("=", 75) >>

\* C7 as stated: the scenario prints 'Yale Law School' with 'Complete Date:
\* 03/01/2025' first and then 'NYU School of Law' with the manual-check
\* message and no date, for either discovery order.
C7_ScenarioKeepsNYU ==
    Scenario => /\ pc # "aborted"
                /\ pc = "done" => printed = ScenarioOutput(<<"N", "Y", "U", " ", "S", "c", "h", "o", "o", "l", " ", "o", "f", " ", "L", "a", "w">>)

\* C7 amended: the same, the second entry being named 'Nyu School of Law':
\* the displayed name is title-cased before the Of-normalization.
C7_ScenarioTitleCased ==
    Scenario => /\ pc # "aborted"
                /\ pc = "done" => printed = ScenarioOutput(<<"N", "y", "u", " ", "S", "c", "h", "o", "o", "l", " ", "o", "f", " ", "L", "a", "w">>)

C7_Witness ==
    /\ Scenario
    /\ pc = "done"
    /\ buttons[1].text = <<"N", "Y", "U", " ", "S", "c", "h", "o", "o", "l", " ", "O", "f", " ", "L", "a", "w">>
    /\ sorted_data[2].k = <<"N", "y", "u", " ", "S", "c", "h", "o", "o", "l", " ", "o", "f", " ", "L", "a", "w">>

\* the text of s after the first occurrence of pat
After(s, pat) == SubSeq(s, Find(s, pat) + Len(pat), Len(s))

Before(s, pat) == SubSeq(s, 1, Find(s, pat) - 1)

\* C8: on the label-found path a block with a 'Date:' marker gives the text
\* before the marker as status and the text after it as date; with nothing
\* after the marker, with or without a space behind the colon, the entry
\* keeps the page's status text and gets the sentinel date.
C8_DateMarkerSplit ==
    \A i \in 1..Len(school_data) :
        LET v == school_data[i].v
            page == PageAt(v[1])
            block == DropCas(page.text)
        IN  (Filled(i) /\ page.label /\ Contains(block, <<" ", "D", "a", "t", "e", ":">>))
               => /\ v[2] = Before(block, <<" ", "D", "a", "t", "e", ":">>)
                  /\ IF After(block, <<" ", "D", "a", "t", "e", ":">>) \in {<<>>, <<" ">>}
                     THEN v[3] = <<"0", "1", "/", "0", "1", "/", "0", "0", "0", "1">>
                     ELSE <<" ">> \o v[3] = After(block, <<" ", "D", "a", "t", "e", ":">>)

\* C9: entries with equal dates leave reverse_date_sort in the order in
\* which their names were first discovered on the landing page.
C9_StableForEqualDates ==
    pc \in {"print", "done"} =>
        \A i, j \in 1..Len(sorted_data) :
            (i < j /\ CalendarDate(sorted_data[i]) = CalendarDate(sorted_data[j]))
               => FirstSeen(sorted_data[i].k) < FirstSeen(sorted_data[j].k)

C9_Witness ==
    /\ pc = "done"
    /\ Len(sorted_data) = 2
    /\ CalendarDate(sorted_data[1]) = CalendarDate(sorted_data[2])
    /\ sorted_data = school_data

\* C10: every discovered link is fetched exactly once and has exactly one
\* entry carrying it, also when two resources share a normalized name.
C10_OneEntryPerLink ==
    pc \in {"sort", "print", "done"} =>
        /\ Len(school_data) = Len(buttons)
        /\ \A b \in 1..Len(buttons) :
              /\ Cardinality({f \in 1..Len(fetched) : fetched[f] = buttons[b].href}) = 1
              /\ Cardinality({i \in 1..Len(school_data) :
                                 school_data[i].v[1] = buttons[b].href}) = 1

====
